---- MODULE Spec2Model ----
(***************************************************************************)
(* Chrysalis Chess (src/App.tsx): the rules engine.  The game state `gs`   *)
(* is the GameState value of the source; every operation is a function     *)
(* from one GameState to the next (performMove, applyPromotionChoice).     *)
(***************************************************************************)
EXTENDS Integers, Sequences, FiniteSets, TLC

VARIABLES gs, script, steps, call, kingSince

vars == <<gs, script, steps, call, kingSince>>

(***************************************************************************)
(* Types and constants of the source                                       *)
(***************************************************************************)
FILES == 0 .. 7

RANKS == 1 .. 8

Colors == {"white", "black"}

PieceTypes == {"K", "Q", "R", "B", "N", "P"}

\* SquareId: the pair <<file, rank>> stands for the string idFrom(file, rank)
Squares == FILES \X RANKS

idFrom(file, rank) == <<file, rank>>

\* null of the nullable string fields (message, winner, winReason)
Null == "null"

\* null of kingProtectedUntil, undefined of returnByTurn
NullTurn == -1

NullOccupant == [kind |-> "null"]

NullPromotion == [square |-> <<0, 0>>, color |-> Null]

NullMove == [from |-> <<0, 0>>, to |-> <<0, 0>>, by |-> Null]

Metamorph(color) == [kind |-> "metamorph", color |-> color]

\* a differentiated piece; an absent mustReturn reads as false
Piece(color, type, born, mustReturn, returnByTurn) ==
  [kind |-> "piece", color |-> color, type |-> type, bornAtTurn |-> born,
   mustReturn |-> mustReturn, returnByTurn |-> returnByTurn]

emptyStock == [t \in PieceTypes |->
  CASE t = "K" -> 1 [] t = "Q" -> 1 [] t = "R" -> 2
    [] t = "B" -> 2 [] t = "N" -> 2 [] t = "P" -> 8]

zeroStock == [t \in PieceTypes |-> 0]

INITIAL_COUNTS == emptyStock

other(color) == IF color = "white" THEN "black" ELSE "white"

inBounds(f, r) == f >= 0 /\ f < 8 /\ r >= 1 /\ r <= 8

inZone(r) == r >= 3 /\ r <= 6

\* the board array is in rank-major order: index i holds file i % 8, rank i \div 8 + 1
squareAt(i) == <<i % 8, (i \div 8) + 1>>

indexOf(s) == (s[2] - 1) * 8 + s[1]

occ(board, f, r) == board[<<f, r>>].occupant

(***************************************************************************)
(* Move Generator                                                          *)
(***************************************************************************)
\* mutant of canLand: the zone limit is not applied
canLandAnywhere(board, color, limitTo316, nf, nr) ==
  IF ~inBounds(nf, nr) THEN FALSE
  ELSE LET o == occ(board, nf, nr)
       IN  o.kind = "null" \/ (o.kind = "piece" /\ o.color # color)

canLand(board, color, limitTo316, nf, nr) ==
  IF ~inBounds(nf, nr) THEN FALSE
  ELSE IF limitTo316 /\ ~inZone(nr) THEN FALSE
  ELSE LET o == occ(board, nf, nr)
       IN  o.kind = "null" \/ (o.kind = "piece" /\ o.color # color)

RECURSIVE pushRay(_, _, _, _, _, _, _)
pushRay(board, color, limitTo316, nf, nr, df, dr) ==
  IF ~inBounds(nf, nr) THEN {}
  ELSE IF limitTo316 /\ ~inZone(nr) THEN {}
  ELSE LET o == occ(board, nf, nr)
       IN  IF o.kind = "null"
           THEN {<<nf, nr>>} \cup pushRay(board, color, limitTo316, nf + df, nr + dr, df, dr)
           ELSE IF o.kind = "piece" /\ o.color # color THEN {<<nf, nr>>} ELSE {}

pushRays(board, color, limitTo316, f0, r0, dirs) ==
  UNION {pushRay(board, color, limitTo316, f0 + d[1], r0 + d[2], d[1], d[2]) : d \in dirs}

KnightDeltas == {<<1, 2>>, <<2, 1>>, <<-1, 2>>, <<-2, 1>>, <<1, -2>>, <<2, -1>>, <<-1, -2>>, <<-2, -1>>}

BishopDirs == {<<1, 1>>, <<1, -1>>, <<-1, 1>>, <<-1, -1>>}

RookDirs == {<<1, 0>>, <<-1, 0>>, <<0, 1>>, <<0, -1>>}

KingDeltas == (BishopDirs \cup RookDirs)

\* mutant of pawnMoves: a pawn also takes a metamorph of the other color
pawnMovesTakingMetamorphs(board, color, f0, r0) ==
  LET dir  == IF color = "white" THEN -1 ELSE 1
      oneR == r0 + dir
      fwd  == IF inBounds(f0, oneR) /\ occ(board, f0, oneR).kind = "null"
              THEN {<<f0, oneR>>} ELSE {}
      caps == {<<f0 + df, oneR>> : df \in {d \in {-1, 1} :
                 /\ inBounds(f0 + d, oneR)
                 /\ occ(board, f0 + d, oneR).kind # "null"
                 /\ occ(board, f0 + d, oneR).color # color}}
  IN  fwd \cup caps

pawnMoves(board, color, f0, r0) ==
  LET dir  == IF color = "white" THEN -1 ELSE 1
      oneR == r0 + dir
      fwd  == IF inBounds(f0, oneR) /\ occ(board, f0, oneR).kind = "null"
              THEN {<<f0, oneR>>} ELSE {}
      caps == {<<f0 + df, oneR>> : df \in {d \in {-1, 1} :
                 /\ inBounds(f0 + d, oneR)
                 /\ occ(board, f0 + d, oneR).kind = "piece"
                 /\ occ(board, f0 + d, oneR).color # color}}
  IN  fwd \cup caps

legalMovesForPiece(g, from) ==
  LET o          == g.board[from].occupant
      color      == o.color
      f0         == from[1]
      r0         == from[2]
      limitTo316 == ~o.mustReturn
  IN  CASE o.type = "N" ->
             {<<f0 + d[1], r0 + d[2]>> : d \in {x \in KnightDeltas :
                canLand(g.board, color, limitTo316, f0 + x[1], r0 + x[2])}}
        [] o.type = "B" -> pushRays(g.board, color, limitTo316, f0, r0, BishopDirs)
        [] o.type = "R" -> pushRays(g.board, color, limitTo316, f0, r0, RookDirs)
        [] o.type = "Q" -> pushRays(g.board, color, limitTo316, f0, r0, RookDirs \cup BishopDirs)
        [] o.type = "K" ->
             {<<f0 + d[1], r0 + d[2]>> : d \in {x \in KingDeltas :
                canLand(g.board, color, limitTo316, f0 + x[1], r0 + x[2])}}
        [] o.type = "P" -> pawnMoves(g.board, color, f0, r0)

\* mutant of legalMovesForMetamorph: a piece of the other color does not block
legalMovesForMetamorphCapturing(g, from) ==
  LET m   == g.board[from].occupant
      dir == IF m.color = "white" THEN -1 ELSE 1
      f0  == from[1]
      nr  == from[2] + dir
  IN  IF ~inBounds(f0, nr) THEN {}
      ELSE IF /\ occ(g.board, f0, nr).kind # "null"
              /\ ~(occ(g.board, f0, nr).kind = "piece" /\ occ(g.board, f0, nr).color # m.color)
           THEN {}
      ELSE {<<f0, nr>>}

legalMovesForMetamorph(g, from) ==
  LET m   == g.board[from].occupant
      dir == IF m.color = "white" THEN -1 ELSE 1
      f0  == from[1]
      nr  == from[2] + dir
  IN  IF ~inBounds(f0, nr) THEN {}
      ELSE IF occ(g.board, f0, nr).kind # "null" THEN {}
      ELSE {<<f0, nr>>}

(***************************************************************************)
(* Transformation Engine                                                   *)
(***************************************************************************)
Min(a, b) == IF a < b THEN a ELSE b

\* one iteration of the loop of applyAutoTransforms, on square s
sweepSquare(g, s) ==
  LET sq     == g.board[s]
      o      == sq.occupant
      needed == sq.blueSymbol
  IN  IF ~inZone(s[2]) \/ needed = Null \/ o.kind = "null" THEN g
      ELSE IF o.kind = "metamorph"
      THEN IF g.stock[o.color][needed] > 0
           THEN [g EXCEPT
                   !.stock[o.color][needed] = @ - 1,
                   !.board[s].occupant = Piece(o.color, needed, g.moveNumber, FALSE, NullTurn),
                   !.kingOnBoard[o.color] = IF needed = "K" THEN TRUE ELSE @,
                   !.kingProtectedUntil[o.color] = IF needed = "K" THEN g.moveNumber ELSE @]
           ELSE g
      ELSE IF o.type # needed /\ g.stock[o.color][needed] > 0
           THEN [g EXCEPT
                   !.stock[o.color][o.type] = Min(INITIAL_COUNTS[o.type], @ + 1),
                   !.stock[o.color][needed] = @ - 1,
                   !.board[s].occupant = Piece(o.color, needed, g.moveNumber, FALSE, NullTurn),
                   !.kingOnBoard[o.color] =
                      IF needed = "K" THEN TRUE ELSE IF o.type = "K" THEN FALSE ELSE @,
                   !.kingProtectedUntil[o.color] = IF needed = "K" THEN g.moveNumber ELSE @]
           ELSE g

\* the indices from i on whose square the loop does not skip (lines 193-195)
sweepable(g, i) ==
  {j \in i .. 63 : inZone(squareAt(j)[2]) /\ g.board[squareAt(j)].occupant.kind # "null"}

\* the loop over newGs.board from index i on, in array order
RECURSIVE sweepFrom(_, _)
sweepFrom(g, i) ==
  LET todo == sweepable(g, i)
  IN  IF todo = {} THEN g
      ELSE LET j == CHOOSE x \in todo : \A y \in todo : x <= y
           IN  sweepFrom(sweepSquare(g, squareAt(j)), j + 1)

applyAutoTransforms(g) == sweepFrom(g, 0)

(***************************************************************************)
(* Win Detector                                                            *)
(***************************************************************************)
piecesOf(g, color) ==
  {s \in Squares : g.board[s].occupant.kind = "piece" /\ g.board[s].occupant.color = color}

isSquareAttacked(g, f, r, by) ==
  \E s \in piecesOf(g, by) : <<f, r>> \in legalMovesForPiece(g, s)

kingSquares(g, color) == {s \in piecesOf(g, color) : g.board[s].occupant.type = "K"}

\* the first king of that color in array order; <<0, 0>> stands for null
findKingSquare(g, color) ==
  IF kingSquares(g, color) = {} THEN <<0, 0>>
  ELSE CHOOSE s \in kingSquares(g, color) :
         \A t \in kingSquares(g, color) : indexOf(s) <= indexOf(t)

hasAnyPawn(g, color) == \E s \in piecesOf(g, color) : g.board[s].occupant.type = "P"

anyPawnCanMove(g, color) ==
  \E s \in piecesOf(g, color) :
    g.board[s].occupant.type = "P" /\ legalMovesForPiece(g, s) # {}

metamorphsOf(g, color) ==
  {s \in Squares : g.board[s].occupant.kind = "metamorph" /\ g.board[s].occupant.color = color}

hasAnyMetamorph(g, color) == metamorphsOf(g, color) # {}

anyMetamorphCanMove(g, color) ==
  \E s \in metamorphsOf(g, color) : legalMovesForMetamorph(g, s) # {}

NoWin == [winner |-> Null, reason |-> Null]

\* the checkmate branch of detectWin
isCheckmate(g, lastMover) ==
  LET opponent == g.turn
      ksq      == findKingSquare(g, opponent)
  IN  /\ g.kingOnBoard[opponent]
      /\ ksq # <<0, 0>>
      /\ isSquareAttacked(g, ksq[1], ksq[2], lastMover)
      /\ \A m \in legalMovesForPiece(g, ksq) : isSquareAttacked(g, m[1], m[2], lastMover)

\* the immobility test of detectWin for one color
isImmobile(g, color) ==
  LET noPawns     == ~hasAnyPawn(g, color)
      pawnsStuck  == ~noPawns /\ ~anyPawnCanMove(g, color)
      noMorphs    == ~hasAnyMetamorph(g, color)
      morphsStuck == ~noMorphs /\ ~anyMetamorphCanMove(g, color)
  IN  /\ ~g.kingOnBoard[color]
      /\ (noPawns \/ pawnsStuck)
      /\ (noMorphs \/ morphsStuck)

\* mutant of detectWin: the captured king is not looked at
detectWinNoCapture(g, lastMover, capturedKing) ==
  IF isCheckmate(g, lastMover) THEN [winner |-> lastMover, reason |-> "checkmate"]
  ELSE IF isImmobile(g, "white")
       THEN [winner |-> "black", reason |-> "no king + no mobile pawns/metamorphs"]
  ELSE IF isImmobile(g, "black")
       THEN [winner |-> "white", reason |-> "no king + no mobile pawns/metamorphs"]
  ELSE NoWin

detectWin(g, lastMover, capturedKing) ==
  IF capturedKing # Null THEN [winner |-> lastMover, reason |-> "king captured"]
  ELSE IF isCheckmate(g, lastMover) THEN [winner |-> lastMover, reason |-> "checkmate"]
  ELSE IF isImmobile(g, "white")
       THEN [winner |-> "black", reason |-> "no king + no mobile pawns/metamorphs"]
  ELSE IF isImmobile(g, "black")
       THEN [winner |-> "white", reason |-> "no king + no mobile pawns/metamorphs"]
  ELSE NoWin

(***************************************************************************)
(* Move Applier                                                            *)
(***************************************************************************)
legalMoves(g, fromId) ==
  IF g.board[fromId].occupant.kind = "metamorph"
  THEN legalMovesForMetamorph(g, fromId)
  ELSE legalMovesForPiece(g, fromId)

\* mutant of moveOutcome: no game-over lock
moveOutcomeNoLock(g, fromId, toId) ==
  LET mover  == g.board[fromId].occupant
      target == g.board[toId].occupant
  IN  IF mover.kind = "null" THEN "no occupant"
      ELSE IF mover.color # g.turn THEN "not your turn"
      ELSE IF toId \notin legalMoves(g, fromId) THEN "illegal"
      ELSE IF target.kind = "piece" /\ target.type = "K" /\ ~g.kingOnBoard[mover.color]
           THEN "no own king"
      ELSE IF /\ target.kind = "piece" /\ target.type = "K"
              /\ g.kingProtectedUntil[target.color] # NullTurn
              /\ g.moveNumber = g.kingProtectedUntil[target.color]
           THEN "king protected"
      ELSE "accepted"

\* mutant of moveOutcome: the attacker's own king is not asked for
moveOutcomeNoOwnKing(g, fromId, toId) ==
  LET mover  == g.board[fromId].occupant
      target == g.board[toId].occupant
  IN  IF g.winner # Null THEN "game over"
      ELSE IF mover.kind = "null" THEN "no occupant"
      ELSE IF mover.color # g.turn THEN "not your turn"
      ELSE IF toId \notin legalMoves(g, fromId) THEN "illegal"
      ELSE IF /\ target.kind = "piece" /\ target.type = "K"
              /\ g.kingProtectedUntil[target.color] # NullTurn
              /\ g.moveNumber = g.kingProtectedUntil[target.color]
           THEN "king protected"
      ELSE "accepted"

\* which return of performMove a call takes: the early returns in their order, else "accepted"
moveOutcome(g, fromId, toId) ==
  LET mover  == g.board[fromId].occupant
      target == g.board[toId].occupant
  IN  IF g.winner # Null THEN "game over"
      ELSE IF mover.kind = "null" THEN "no occupant"
      ELSE IF mover.color # g.turn THEN "not your turn"
      ELSE IF toId \notin legalMoves(g, fromId) THEN "illegal"
      ELSE IF target.kind = "piece" /\ target.type = "K" /\ ~g.kingOnBoard[mover.color]
           THEN "no own king"
      ELSE IF /\ target.kind = "piece" /\ target.type = "K"
              /\ g.kingProtectedUntil[target.color] # NullTurn
              /\ g.moveNumber = g.kingProtectedUntil[target.color]
           THEN "king protected"
      ELSE "accepted"

\* the color of the king the move captures (the local capturedKing), or Null
capturedKingOf(g, toId) ==
  LET target == g.board[toId].occupant
  IN  IF target.kind = "piece" /\ target.type = "K" THEN target.color ELSE Null

\* mutant of captureAndMove: a captured piece is not listed in quietus
captureAndMoveUnlisted(g, fromId, toId) ==
  LET mover  == g.board[fromId].occupant
      target == g.board[toId].occupant
      g1     == IF target.kind = "piece"
                THEN [g EXCEPT
                        !.quietus[target.color][target.type] = @,
                        !.kingOnBoard[target.color] = IF target.type = "K" THEN FALSE ELSE @]
                ELSE g
  IN  [g1 EXCEPT
         !.board[toId].occupant = mover,
         !.board[fromId].occupant = NullOccupant,
         !.lastMove = [from |-> fromId, to |-> toId, by |-> mover.color]]

\* lines 258-266: record the capture, move the occupant, set lastMove
captureAndMove(g, fromId, toId) ==
  LET mover  == g.board[fromId].occupant
      target == g.board[toId].occupant
      g1     == IF target.kind = "piece"
                THEN [g EXCEPT
                        !.quietus[target.color][target.type] = @ + 1,
                        !.kingOnBoard[target.color] = IF target.type = "K" THEN FALSE ELSE @]
                ELSE g
  IN  [g1 EXCEPT
         !.board[toId].occupant = mover,
         !.board[fromId].occupant = NullOccupant,
         !.lastMove = [from |-> fromId, to |-> toId, by |-> mover.color]]

\* mutant of clearLoanOnLanding: a loan that lands inside ranks 3..6 stays a loan
clearLoanOnLandingNever(g, toId) == g

\* lines 268-273: a loan piece that lands inside ranks 3..6 keeps its place for good
clearLoanOnLanding(g, toId) ==
  LET o == g.board[toId].occupant
  IN  IF o.kind = "piece" /\ o.mustReturn /\ inZone(toId[2])
      THEN [g EXCEPT !.board[toId].occupant.mustReturn = FALSE,
                     !.board[toId].occupant.returnByTurn = NullTurn]
      ELSE g

\* mutant of landingTransform: the type given back to the stock is not clamped to its cap
landingTransformNoClamp(g, toId) ==
  LET sq     == g.board[toId]
      o      == sq.occupant
      needed == sq.blueSymbol
  IN  IF ~inZone(toId[2]) \/ needed = Null THEN g
      ELSE IF o.kind = "piece"
      THEN IF o.type # needed /\ g.stock[o.color][needed] > 0
           THEN [g EXCEPT
                   !.stock[o.color][o.type] = @ + 1,
                   !.stock[o.color][needed] = @ - 1,
                   !.board[toId].occupant = Piece(o.color, needed, g.moveNumber, FALSE, NullTurn),
                   !.kingOnBoard[o.color] =
                      IF needed = "K" THEN TRUE ELSE IF o.type = "K" THEN FALSE ELSE @,
                   !.kingProtectedUntil[o.color] =
                      IF needed = "K" THEN g.moveNumber + 1 ELSE @]
           ELSE g
      ELSE IF o.kind = "metamorph" /\ g.stock[o.color][needed] > 0
           THEN [g EXCEPT
                   !.stock[o.color][needed] = @ - 1,
                   !.board[toId].occupant = Piece(o.color, needed, g.moveNumber, FALSE, NullTurn),
                   !.kingOnBoard[o.color] = IF needed = "K" THEN TRUE ELSE @,
                   !.kingProtectedUntil[o.color] =
                      IF needed = "K" THEN g.moveNumber + 1 ELSE @]
           ELSE g

\* lines 275-296: the transform of the landed occupant on its square
landingTransform(g, toId) ==
  LET sq     == g.board[toId]
      o      == sq.occupant
      needed == sq.blueSymbol
  IN  IF ~inZone(toId[2]) \/ needed = Null THEN g
      ELSE IF o.kind = "piece"
      THEN IF o.type # needed /\ g.stock[o.color][needed] > 0
           THEN [g EXCEPT
                   !.stock[o.color][o.type] = Min(INITIAL_COUNTS[o.type], @ + 1),
                   !.stock[o.color][needed] = @ - 1,
                   !.board[toId].occupant = Piece(o.color, needed, g.moveNumber, FALSE, NullTurn),
                   !.kingOnBoard[o.color] =
                      IF needed = "K" THEN TRUE ELSE IF o.type = "K" THEN FALSE ELSE @,
                   !.kingProtectedUntil[o.color] =
                      IF needed = "K" THEN g.moveNumber + 1 ELSE @]
           ELSE g
      ELSE IF o.kind = "metamorph" /\ g.stock[o.color][needed] > 0
           THEN [g EXCEPT
                   !.stock[o.color][needed] = @ - 1,
                   !.board[toId].occupant = Piece(o.color, needed, g.moveNumber, FALSE, NullTurn),
                   !.kingOnBoard[o.color] = IF needed = "K" THEN TRUE ELSE @,
                   !.kingProtectedUntil[o.color] =
                      IF needed = "K" THEN g.moveNumber + 1 ELSE @]
           ELSE g

\* lines 298-302: a pawn on its far rank opens a promotion request
markPromotion(g, toId) ==
  LET o == g.board[toId].occupant
  IN  IF /\ o.kind = "piece" /\ o.type = "P"
         /\ ((o.color = "white" /\ toId[2] = 1) \/ (o.color = "black" /\ toId[2] = 8))
      THEN [g EXCEPT !.promotion = [square |-> toId, color |-> o.color]]
      ELSE g

\* mutant of advanceTurn: the move is counted but the turn stays with the mover
advanceTurnSameColor(g) == [g EXCEPT !.moveNumber = @ + 1]

\* lines 304-305
advanceTurn(g) == [g EXCEPT !.turn = other(g.turn), !.moveNumber = @ + 1]

\* mutant of loanDue: the loan's color is not compared with the color that just moved
loanDueAnyColor(g, s) ==
  LET o == g.board[s].occupant
  IN  /\ o.kind = "piece" /\ o.mustReturn /\ o.returnByTurn # NullTurn
      /\ g.moveNumber >= o.returnByTurn

\* a loan of the color that just moved whose deadline has come
loanDue(g, s) ==
  LET o == g.board[s].occupant
  IN  /\ o.kind = "piece" /\ o.mustReturn /\ o.returnByTurn # NullTurn
      /\ o.color = other(g.turn)
      /\ g.moveNumber >= o.returnByTurn

\* lines 307-320: due loans vanish outside ranks 3..6, and become permanent inside
expireLoans(g) ==
  [g EXCEPT
     !.board = [s \in Squares |->
        IF loanDue(g, s)
        THEN IF ~inZone(s[2])
             THEN [g.board[s] EXCEPT !.occupant = NullOccupant]
             ELSE [g.board[s] EXCEPT !.occupant.mustReturn = FALSE,
                                     !.occupant.returnByTurn = NullTurn]
        ELSE g.board[s]],
     !.kingOnBoard = [c \in Colors |->
        IF \E s \in Squares :
             /\ loanDue(g, s) /\ ~inZone(s[2])
             /\ g.board[s].occupant.type = "K" /\ g.board[s].occupant.color = c
        THEN FALSE ELSE g.kingOnBoard[c]]]

\* lines 322-329: sweep, clear the message, detect a win
finishMove(g, capturedKing) ==
  LET newGs     == [applyAutoTransforms(g) EXCEPT !.message = Null]
      lastMover == other(newGs.turn)
      win       == detectWin(newGs, lastMover, capturedKing)
  IN  IF win # NoWin
      THEN [newGs EXCEPT !.winner = win.winner, !.winReason = win.reason,
                         !.message = "Winner"]
      ELSE newGs

\* lines 258-305: the state on entry to the expiry loop
movedAndAdvanced(g, fromId, toId) ==
  advanceTurn(markPromotion(landingTransform(
    clearLoanOnLanding(captureAndMove(g, fromId, toId), toId), toId), toId))

\* the move itself, lines 258-329
acceptedMove(g, fromId, toId) ==
  finishMove(expireLoans(movedAndAdvanced(g, fromId, toId)), capturedKingOf(g, toId))

\* mutant of performMove: a refused king capture has already been booked in quietus
performMoveEager(g, fromId, toId) ==
  LET outcome == moveOutcome(g, fromId, toId)
      booked  == [g EXCEPT !.quietus[other(g.turn)]["K"] = @ + 1]
  IN  CASE outcome = "accepted" -> acceptedMove(g, fromId, toId)
        [] outcome = "illegal" -> [g EXCEPT !.message = "Illegal move."]
        [] outcome = "no own king" ->
             [booked EXCEPT !.message = "You cannot take the king without your own king on the board."]
        [] outcome = "king protected" ->
             [booked EXCEPT !.message = "That king is protected this turn."]
        [] OTHER -> g

performMove(g, fromId, toId) ==
  LET outcome == moveOutcome(g, fromId, toId)
  IN  CASE outcome = "accepted" -> acceptedMove(g, fromId, toId)
        [] outcome = "illegal" -> [g EXCEPT !.message = "Illegal move."]
        [] outcome = "no own king" ->
             [g EXCEPT !.message = "You cannot take the king without your own king on the board."]
        [] outcome = "king protected" ->
             [g EXCEPT !.message = "That king is protected this turn."]
        [] OTHER -> g

(***************************************************************************)
(* Promotion resolution                                                    *)
(***************************************************************************)
activeCounts(g, color) ==
  [t \in PieceTypes |-> Cardinality({s \in piecesOf(g, color) : g.board[s].occupant.type = t})]

promotionAvailable(g, color, t) == activeCounts(g, color)[t] < INITIAL_COUNTS[t]

promotionOutcome(state, type) ==
  IF state.promotion = NullPromotion THEN "no promotion"
  ELSE IF ~promotionAvailable(state, state.promotion.color, type) THEN "at cap"
  ELSE "accepted"

\* mutant of applyPromotionChoice: the loan is due one move later
applyPromotionChoiceLate(state, type) ==
  LET square   == state.promotion.square
      color    == state.promotion.color
      deadline == state.moveNumber + 2
  IN  IF promotionOutcome(state, type) # "accepted" THEN state
      ELSE applyAutoTransforms(
             [state EXCEPT
                !.quietus[color][type] = IF @ > 0 THEN @ - 1 ELSE @,
                !.board[square].occupant = Piece(color, type, state.moveNumber, TRUE, deadline),
                !.kingOnBoard[color] = IF type = "K" THEN TRUE ELSE @,
                !.kingProtectedUntil[color] = IF type = "K" THEN state.moveNumber + 1 ELSE @,
                !.promotion = NullPromotion])

applyPromotionChoice(state, type) ==
  LET square   == state.promotion.square
      color    == state.promotion.color
      deadline == state.moveNumber + 1
  IN  IF promotionOutcome(state, type) # "accepted" THEN state
      ELSE applyAutoTransforms(
             [state EXCEPT
                !.quietus[color][type] = IF @ > 0 THEN @ - 1 ELSE @,
                !.board[square].occupant = Piece(color, type, state.moveNumber, TRUE, deadline),
                !.kingOnBoard[color] = IF type = "K" THEN TRUE ELSE @,
                !.kingProtectedUntil[color] = IF type = "K" THEN state.moveNumber + 1 ELSE @,
                !.promotion = NullPromotion])

\* mutant of handlePromotion: the piece is placed for good, not as a loan
handlePromotionForGood(state, type) ==
  LET square == state.promotion.square
      color  == state.promotion.color
  IN  IF state.promotion = NullPromotion THEN state
      ELSE IF ~promotionAvailable(state, color, type)
      THEN [state EXCEPT !.message = "You can't promote to that piece right now."]
      ELSE applyAutoTransforms(
             [state EXCEPT
                !.quietus[color][type] = IF @ > 0 THEN @ - 1 ELSE @,
                !.board[square].occupant = Piece(color, type, state.moveNumber, FALSE, NullTurn),
                !.kingOnBoard[color] = IF type = "K" THEN TRUE ELSE @,
                !.kingProtectedUntil[color] = IF type = "K" THEN state.moveNumber + 1 ELSE @,
                !.promotion = NullPromotion])

\* the handler of the promotion dialog
handlePromotion(state, type) ==
  LET square   == state.promotion.square
      color    == state.promotion.color
      deadline == state.moveNumber + 1
  IN  IF state.promotion = NullPromotion THEN state
      ELSE IF ~promotionAvailable(state, color, type)
      THEN [state EXCEPT !.message = "You can't promote to that piece right now."]
      ELSE applyAutoTransforms(
             [state EXCEPT
                !.quietus[color][type] = IF @ > 0 THEN @ - 1 ELSE @,
                !.board[square].occupant = Piece(color, type, state.moveNumber, TRUE, deadline),
                !.kingOnBoard[color] = IF type = "K" THEN TRUE ELSE @,
                !.kingProtectedUntil[color] = IF type = "K" THEN state.moveNumber + 1 ELSE @,
                !.promotion = NullPromotion])

(***************************************************************************)
(* AI                                                                      *)
(***************************************************************************)
\* initialGame, line 101; the level is Medium
cpuPlays == "black"

kingInCheck(g, color) ==
  LET ksq == findKingSquare(g, color)
  IN  /\ g.kingOnBoard[color]
      /\ ksq # <<0, 0>>
      /\ isSquareAttacked(g, ksq[1], ksq[2], other(color))

RECURSIVE firstAvailable(_, _, _)
firstAvailable(state, color, pref) ==
  IF pref = << >> THEN Null
  ELSE IF promotionAvailable(state, color, Head(pref)) THEN Head(pref)
  ELSE firstAvailable(state, color, Tail(pref))

aiResolvePromotion(state, color) ==
  LET t == firstAvailable(state, color, <<"Q", "R", "B", "N", "K">>)
  IN  IF t = Null THEN state ELSE applyPromotionChoice(state, t)

\* the squares of the occupants generateMoves loops over
occupantsOf(g, color) == metamorphsOf(g, color) \cup piecesOf(g, color)

\* lines 804-806 and 811-813: one tentative move and its own promotion choice
tentativeNext(base, color, from, to) ==
  LET n == performMove(base, from, to)
  IN  IF n.promotion # NullPromotion /\ n.promotion.color = color
      THEN aiResolvePromotion(n, color)
      ELSE n

\* lines 797-817: every tentative move of the two loops, with its result
tentativeMoves(g, color) ==
  LET base == [g EXCEPT !.turn = color]
  IN  UNION {{[from |-> s, to |-> d, next |-> tentativeNext(base, color, s, d)] :
                d \in legalMoves(base, s)} : s \in occupantsOf(base, color)}

\* the moves pushed to candidates, those whose result has no message
candidatesOf(g, color) == {m \in tentativeMoves(g, color) : m.next.message = Null}

\* the list is modelled by the set of its entries; no two entries share from and to
generateMoves(g, color) ==
  LET candidates == candidatesOf(g, color)
      safe       == {m \in candidates : ~kingInCheck(m.next, color)}
  IN  IF kingInCheck(g, color) THEN safe
      ELSE IF safe # {} THEN safe ELSE candidates

val == [K |-> 5000, Q |-> 900, R |-> 500, B |-> 330, N |-> 320, P |-> 100]

\* the loop of evaluate over the board from index i on; every term is doubled
RECURSIVE boardScore(_, _, _)
boardScore(g, forColor, i) ==
  IF i > 63 THEN 0
  ELSE LET s    == squareAt(i)
           o    == g.board[s].occupant
           sign == IF o.color = forColor THEN 1 ELSE -1
       IN  (IF o.kind = "piece"
            THEN sign * 2 * val[o.type] + (IF inZone(s[2]) THEN sign * 8 ELSE 0)
            ELSE 0) + boardScore(g, forColor, i + 1)

\* twice the score of the code, so that the half point per move is an integer
evaluate(g, forColor) ==
  IF g.winner # Null
  THEN IF g.winner = forColor THEN 2 * 1000000000 ELSE -2 * 1000000000
  ELSE boardScore(g, forColor, 0)
         + Cardinality(generateMoves(g, forColor))
         - Cardinality(generateMoves(g, other(forColor)))

\* level Medium.  The loop keeps the first move of the greatest score; the order
\* of the list is not modelled, so the result is the set of the states the loop
\* can return: one state when the greatest score is reached once
pickAiMove(g) ==
  LET color  == cpuPlays
      moves  == generateMoves(g, color)
      scored == {<<m.next, evaluate(m.next, color)>> : m \in moves}
  IN  IF moves = {} THEN {g}
      ELSE {p[1] : p \in {q \in scored : \A r \in scored : q[2] >= r[2]}}

(***************************************************************************)
(* Setup.  createInitialBoard shuffles the bag of blue symbols; a layout   *)
(* is one outcome of the shuffle, given rank by rank (3..6), file a..h.    *)
(***************************************************************************)
LayoutRows(name) ==
  IF name = "pawns"
  THEN << <<"P", "P", "N", "B", "Q", "R", "K", "P">>,
          <<"P", "P", "B", "N", "R", "B", "P", "P">>,
          <<"P", "P", "R", "N", "B", "P", "P", "P">>,
          <<"P", "P", "Q", "K", "R", "N", "P", "P">> >>
  ELSE IF name = "blockade"
  THEN << <<"P", "R", "P", "P", "P", "P", "P", "P">>,
          <<"P", "P", "K", "Q", "R", "B", "B", "B">>,
          <<"P", "P", "N", "N", "N", "P", "P", "P">>,
          <<"P", "P", "R", "B", "N", "Q", "R", "K">> >>
  ELSE IF name = "knight"
  THEN << <<"P", "K", "P", "K", "Q", "R", "N", "P">>,
          <<"P", "P", "B", "N", "R", "B", "P", "R">>,
          <<"P", "P", "P", "N", "B", "P", "P", "P">>,
          <<"P", "P", "Q", "B", "P", "N", "P", "R">> >>
  ELSE IF name = "chain"
  THEN << <<"P", "P", "P", "P", "P", "P", "P", "P">>,
          <<"R", "B", "B", "N", "N", "P", "P", "P">>,
          <<"B", "B", "R", "K", "P", "N", "N", "P">>,
          <<"K", "Q", "P", "R", "Q", "R", "P", "P">> >>
  ELSE IF name = "queens"
  THEN << <<"N", "B", "Q", "P", "P", "P", "P", "P">>,
          <<"P", "R", "P", "K", "K", "R", "P", "P">>,
          <<"P", "P", "B", "B", "B", "N", "P", "P">>,
          <<"P", "R", "Q", "R", "P", "P", "N", "N">> >>
  ELSE IF name = "net"
  THEN << <<"P", "K", "P", "P", "P", "P", "P", "P">>,
          <<"P", "P", "P", "N", "N", "B", "B", "R">>,
          <<"Q", "P", "B", "N", "N", "R", "R", "P">>,
          <<"P", "P", "K", "B", "Q", "P", "P", "R">> >>
  ELSE IF name = "corner"
  THEN << <<"P", "P", "N", "B", "Q", "R", "K", "P">>,
          <<"P", "P", "B", "N", "R", "B", "P", "Q">>,
          <<"P", "P", "R", "N", "B", "P", "P", "P">>,
          <<"P", "P", "P", "P", "R", "N", "P", "K">> >>
  ELSE << <<"K", "R", "Q", "R", "P", "P", "P", "P">>,
          <<"B", "N", "P", "P", "P", "P", "N", "B">>,
          <<"N", "B", "P", "P", "P", "P", "P", "P">>,
          <<"R", "R", "K", "Q", "B", "N", "P", "P">> >>

\* a layout is a shuffle of the bag: two full armies worth of symbols
isShuffleOfBag(rows) ==
  \A t \in PieceTypes :
    Cardinality({s \in FILES \X (3 .. 6) : rows[s[2] - 2][s[1] + 1] = t}) = 2 * emptyStock[t]

createInitialBoard(rows) ==
  [s \in Squares |->
     [blueSymbol |-> IF inZone(s[2]) THEN rows[s[2] - 2][s[1] + 1] ELSE Null,
      occupant   |-> IF s[2] \in {1, 2} THEN Metamorph("black")
                     ELSE IF s[2] \in {7, 8} THEN Metamorph("white")
                     ELSE NullOccupant]]

initialGame(rows) ==
  [board              |-> createInitialBoard(rows),
   turn               |-> "white",
   moveNumber         |-> 1,
   stock              |-> [c \in Colors |-> emptyStock],
   quietus            |-> [c \in Colors |-> zeroStock],
   kingOnBoard        |-> [c \in Colors |-> FALSE],
   kingProtectedUntil |-> [c \in Colors |-> NullTurn],
   promotion          |-> NullPromotion,
   message            |-> Null,
   winner             |-> Null,
   winReason          |-> Null,
   lastMove           |-> NullMove]

(***************************************************************************)
(* The players.  A game opens with one of a few fixed sequences of         *)
(* requests (script) and goes on with any requests on the files a and b.   *)
(***************************************************************************)
mv(f1, r1, f2, r2) == [op |-> "move", from |-> <<f1, r1>>, to |-> <<f2, r2>>, type |-> Null]

pr(t) == [op |-> "promote", from |-> <<0, 0>>, to |-> <<0, 0>>, type |-> t]

\* white walks a pawn b7-b6-b5-b4xa3-a2-a1 while black empties a1 and a2;
\* c7-c6 gives white a queen
PromotionOpening ==
  << mv(1, 7, 1, 6), mv(0, 2, 0, 3), mv(1, 6, 1, 5), mv(0, 3, 0, 4),
     mv(1, 5, 1, 4), mv(0, 1, 0, 2), mv(2, 7, 2, 6), mv(0, 2, 0, 3),
     mv(1, 4, 0, 3), mv(0, 4, 0, 5), mv(0, 3, 0, 2), mv(7, 2, 7, 3),
     mv(0, 2, 0, 1) >>

\* a white rook on a6, a white king on c6, then a black king appears on a3
KingsOpening ==
  << mv(0, 7, 0, 6), mv(7, 2, 7, 3), mv(2, 7, 2, 6), mv(0, 2, 0, 3) >>

\* a black pawn reaches a8 and becomes a loan queen, a white pawn reaches h1 and
\* becomes a loan king, with the diagonal a8-h1 open and a black king on g3
DoublePromotionOpening ==
  << mv(0, 7, 0, 6), mv(1, 2, 1, 3), mv(0, 6, 0, 5), mv(1, 3, 1, 4),
     mv(0, 8, 0, 7), mv(1, 4, 1, 5), mv(0, 7, 0, 6), mv(1, 5, 0, 6),
     mv(1, 7, 1, 6), mv(7, 2, 7, 3), mv(6, 7, 6, 6), mv(7, 3, 7, 4),
     mv(6, 6, 6, 5), mv(7, 1, 7, 2), mv(6, 5, 6, 4), mv(7, 2, 7, 3),
     mv(6, 4, 7, 3), mv(6, 2, 6, 3), mv(7, 3, 7, 2), mv(0, 6, 0, 7),
     mv(4, 7, 4, 6), mv(0, 7, 0, 8), pr("Q"), mv(7, 2, 7, 1), pr("K"),
     mv(0, 8, 7, 1) >>

\* a black pawn reaches a8 and becomes a loan queen, a white pawn reaches h1 and,
\* with white's promotion still open, the queen takes the pawn along a8-h1
TakenPromotionOpening ==
  << mv(0, 7, 0, 6), mv(1, 2, 1, 3), mv(0, 6, 0, 5), mv(1, 3, 1, 4),
     mv(0, 8, 0, 7), mv(1, 4, 1, 5), mv(0, 7, 0, 6), mv(1, 5, 0, 6),
     mv(1, 7, 1, 6), mv(7, 2, 7, 3), mv(6, 7, 6, 6), mv(7, 3, 7, 4),
     mv(6, 6, 6, 5), mv(7, 1, 7, 2), mv(6, 5, 6, 4), mv(7, 2, 7, 3),
     mv(6, 4, 7, 3), mv(6, 2, 6, 3), mv(7, 3, 7, 2), mv(0, 6, 0, 7),
     mv(4, 7, 4, 6), mv(0, 7, 0, 8), pr("Q"), mv(7, 2, 7, 1), mv(0, 8, 7, 1) >>

\* white promotes on a1 to a king, then makes a second king on h6 by the move that
\* lets the first one expire; a black queen on h4 holds h6, h5 and g5, a white
\* pawn stands on g6, and black makes one more quiet move
StrandedKingOpening ==
  << mv(1, 7, 1, 6), mv(0, 2, 0, 3), mv(1, 6, 1, 5), mv(0, 3, 0, 4),
     mv(1, 5, 1, 4), mv(0, 1, 0, 2), mv(6, 7, 6, 6), mv(0, 2, 0, 3),
     mv(1, 4, 0, 3), mv(0, 4, 0, 5), mv(0, 3, 0, 2), mv(7, 2, 7, 3),
     mv(0, 2, 0, 1), pr("K"), mv(7, 3, 7, 4), mv(7, 7, 7, 6), mv(0, 5, 0, 6) >>

\* white promotes on a1 to a king and makes a second king on h6 by the move that
\* lets the first one expire; then every white metamorph is walled in, behind white
\* pieces on c6..h6 and behind black pawns on a6 and b6, and white has no pawn
BlockadeOpening ==
  << mv(1, 7, 1, 6), mv(0, 2, 0, 3), mv(1, 6, 1, 5), mv(0, 3, 0, 4),
     mv(1, 5, 1, 4), mv(0, 1, 0, 2), mv(2, 7, 2, 6), mv(0, 2, 0, 3),
     mv(1, 4, 0, 3), mv(0, 4, 0, 5), mv(0, 3, 0, 2), mv(1, 2, 1, 3),
     mv(0, 2, 0, 1), pr("K"), mv(1, 3, 1, 6), mv(7, 7, 7, 6), mv(0, 5, 0, 6),
     mv(2, 8, 2, 7), mv(2, 2, 2, 3), mv(3, 7, 3, 6), mv(3, 2, 3, 3),
     mv(3, 8, 3, 7), mv(4, 2, 4, 3), mv(4, 7, 4, 6), mv(5, 2, 5, 3),
     mv(4, 8, 4, 7), mv(6, 2, 6, 3), mv(5, 7, 5, 6), mv(7, 2, 7, 3),
     mv(5, 8, 5, 7), mv(2, 1, 2, 2), mv(6, 7, 6, 6), mv(3, 1, 3, 2),
     mv(6, 8, 6, 7), mv(4, 1, 4, 2), mv(7, 8, 7, 7), mv(5, 1, 5, 2),
     mv(1, 8, 1, 7) >>

\* a black king on b3 between its own pawns on a4 and c3, a white bishop on d6
\* holding a3 and b4, a white rook on h4 holding b4 and c4; white promotes on a1
\* to a knight, which attacks b3
PromotionMateOpening ==
  << mv(1, 7, 1, 6), mv(0, 2, 0, 3), mv(1, 6, 1, 5), mv(0, 3, 0, 4),
     mv(1, 5, 1, 4), mv(0, 1, 0, 2), mv(3, 7, 3, 6), mv(0, 2, 0, 3),
     mv(1, 4, 0, 3), mv(1, 2, 1, 3), mv(7, 7, 7, 6), mv(2, 2, 2, 3),
     mv(7, 6, 7, 4), mv(6, 2, 6, 3), mv(0, 3, 0, 2), mv(5, 2, 5, 3),
     mv(0, 2, 0, 1), pr("N") >>

\* white, with its stock of K, Q and R used up, has a king on the Q square b6, a
\* rook on the K square d5 and a pawn on the R square c5; the queen steps from e6
\* to e5 and turns pawn, and the sweeps of the next three moves hand the queen
\* to b6, the king to d5 and the rook to c5; the third of them is g7-g6
SweepChainOpening ==
  << mv(0, 7, 0, 6), mv(0, 2, 0, 3), mv(4, 7, 4, 6), mv(1, 2, 1, 3),
     mv(0, 6, 1, 6), mv(2, 2, 2, 3), mv(3, 7, 3, 6), mv(3, 2, 3, 3),
     mv(3, 6, 3, 5), mv(4, 2, 4, 3), mv(5, 7, 5, 6), mv(5, 2, 5, 3),
     mv(2, 7, 2, 6), mv(6, 2, 6, 3), mv(2, 6, 2, 5), mv(7, 2, 7, 3),
     mv(4, 6, 4, 5), mv(0, 1, 0, 2), mv(6, 7, 6, 6) >>

\* black clears the a-file with two knights and b2 with a bishop; white, its
\* knights on g6 and h6, walks a pawn a7-a1 and chooses a queen, which goes a1-c3
\* onto a Q square and stays; c7-c6 gives white a second queen; a second white
\* pawn then walks a8-a1
SecondQueenOpening ==
  << mv(0, 7, 0, 6), mv(0, 2, 0, 3), mv(0, 6, 0, 5), mv(0, 3, 2, 4),
     mv(0, 5, 0, 4), mv(0, 1, 0, 2), mv(6, 7, 6, 6), mv(0, 2, 0, 3),
     mv(7, 7, 7, 6), mv(0, 3, 1, 5), mv(0, 4, 0, 3), mv(1, 2, 1, 3),
     mv(0, 3, 0, 2), mv(7, 2, 7, 3), mv(0, 2, 0, 1), pr("Q"),
     mv(6, 2, 6, 3), mv(0, 1, 2, 3), mv(5, 2, 5, 3), mv(2, 7, 2, 6),
     mv(4, 2, 4, 3), mv(0, 8, 0, 7), mv(3, 2, 3, 3), mv(0, 7, 0, 6),
     mv(7, 1, 7, 2), mv(0, 6, 0, 5), mv(6, 1, 6, 2), mv(0, 5, 0, 4),
     mv(5, 1, 5, 2), mv(0, 4, 0, 3), mv(4, 1, 4, 2), mv(0, 3, 0, 2),
     mv(3, 1, 3, 2), mv(0, 2, 0, 1) >>

\* black has used up its eight pawns and has its king on b3 between its pawns on
\* a4 and c3; a white bishop on d6 holds a3 and b4, a white rook on h4 holds b4 and
\* c4; white promotes on a1 to a knight, which attacks b3, and black is to move
NetOpening ==
  << mv(1, 7, 1, 6), mv(0, 2, 0, 3), mv(1, 6, 1, 5), mv(0, 3, 0, 4),
     mv(1, 5, 1, 4), mv(0, 1, 0, 2), mv(3, 7, 3, 6), mv(0, 2, 0, 3),
     mv(1, 4, 0, 3), mv(1, 2, 1, 3), mv(7, 7, 7, 6), mv(2, 2, 2, 3),
     mv(7, 6, 7, 4), mv(3, 2, 3, 3), mv(0, 3, 0, 2), mv(4, 2, 4, 3),
     mv(7, 8, 7, 7), mv(5, 2, 5, 3), mv(3, 8, 3, 7), mv(6, 2, 6, 3),
     mv(7, 7, 7, 6), mv(7, 2, 7, 3), mv(0, 2, 0, 1), pr("N") >>

\* a white king on c6, a black king on a3 and a black queen on c3 with c4 and c5
\* empty; white has made two more moves and black is to move
QueenFacesKingOpening ==
  << mv(2, 7, 2, 6), mv(0, 2, 0, 3), mv(7, 7, 7, 6), mv(2, 2, 2, 3), mv(7, 8, 7, 7) >>

\* white has its king on d6 and a bishop on f4 next to the black king on g3; its
\* pawn steps to a1 and, with the promotion still open, the bishop takes the king
WonWithPromotionOpening ==
  << mv(1, 7, 1, 6), mv(0, 2, 0, 3), mv(1, 6, 1, 5), mv(0, 3, 0, 4),
     mv(1, 5, 1, 4), mv(0, 1, 0, 2), mv(3, 7, 3, 6), mv(0, 2, 0, 3),
     mv(1, 4, 0, 3), mv(0, 4, 0, 5), mv(0, 3, 0, 2), mv(6, 2, 6, 3),
     mv(4, 7, 4, 6), mv(7, 2, 7, 3), mv(4, 6, 4, 4), mv(7, 3, 7, 4),
     mv(4, 4, 5, 4), mv(7, 4, 7, 5), mv(0, 2, 0, 1), mv(7, 5, 7, 6),
     mv(5, 4, 6, 3) >>

\* a white rook on a6 faces a black king on a3 while white has no king of its own
LoneKingOpening ==
  << mv(0, 7, 0, 6), mv(0, 2, 0, 3), mv(7, 7, 7, 6), mv(7, 2, 7, 3) >>

Openings ==
  { [layout |-> "kings", script |-> << >>],
    [layout |-> "kings", script |-> KingsOpening],
    [layout |-> "kings", script |-> LoneKingOpening],
    [layout |-> "pawns", script |-> PromotionOpening],
    [layout |-> "pawns", script |-> DoublePromotionOpening],
    [layout |-> "corner", script |-> StrandedKingOpening],
    [layout |-> "blockade", script |-> BlockadeOpening],
    [layout |-> "knight", script |-> PromotionMateOpening],
    [layout |-> "chain", script |-> SweepChainOpening],
    [layout |-> "queens", script |-> SecondQueenOpening],
    [layout |-> "net", script |-> NetOpening],
    [layout |-> "kings", script |-> QueenFacesKingOpening],
    [layout |-> "pawns", script |-> WonWithPromotionOpening],
    [layout |-> "pawns", script |-> TakenPromotionOpening] }

\* the squares the players pick from once the opening is played
ActiveSquares == (0 .. 1) \X RANKS

\* how many accepted moves follow the opening
MaxSteps == 2

moverColor(g, fromId) ==
  IF g.board[fromId].occupant.kind = "null" THEN Null ELSE g.board[fromId].occupant.color

isKingOf(o, c) == o.kind = "piece" /\ o.type = "K" /\ o.color = c

\* a king of color c stands in g2 that did not stand in g and is not a king of g moved there
kingCreated(g, g2, c) ==
  \E s \in Squares :
    /\ isKingOf(g2.board[s].occupant, c)
    /\ ~isKingOf(g.board[s].occupant, c)
    /\ ~(/\ g2.lastMove # g.lastMove
         /\ g2.lastMove.to = s
         /\ isKingOf(g.board[g2.lastMove.from].occupant, c))

\* the squares whose loan the expiry loop of an accepted move destroys
expiredBy(g, fromId, toId) ==
  LET g1 == movedAndAdvanced(g, fromId, toId)
  IN  {<<s, g1.board[s].occupant.returnByTurn>> :
         s \in {x \in Squares : loanDue(g1, x) /\ ~inZone(x[2])}}

NoCall ==
  [op |-> "newGame", outcome |-> Null, mover |-> Null, capturedKing |-> Null, expired |-> {}]

Init ==
  \E o \in Openings :
    /\ isShuffleOfBag(LayoutRows(o.layout))
    /\ gs = initialGame(LayoutRows(o.layout))
    /\ script = o.script
    /\ steps = 0
    /\ call = NoCall
    /\ kingSince = [c \in Colors |-> 0]

\* kingSince[c]: the moveNumber of the state in which the latest king of c came to be
TrackKings ==
  kingSince' = [c \in Colors |->
    IF kingCreated(gs, gs', c) THEN gs'.moveNumber ELSE kingSince[c]]

\* apply(state, from, to)
DoApply(fromId, toId) ==
  LET outcome == moveOutcome(gs, fromId, toId)
  IN  /\ gs' = performMove(gs, fromId, toId)
      /\ call' = [op |-> "apply", outcome |-> outcome, mover |-> moverColor(gs, fromId),
                  capturedKing |-> IF outcome = "accepted" THEN capturedKingOf(gs, toId) ELSE Null,
                  expired |-> IF outcome = "accepted" THEN expiredBy(gs, fromId, toId) ELSE {}]
      /\ TrackKings

\* resolvePromotion(state, type)
DoResolve(type) ==
  /\ gs' = applyPromotionChoice(gs, type)
  /\ call' = [op |-> "resolve", outcome |-> promotionOutcome(gs, type),
              mover |-> gs.promotion.color, capturedKing |-> Null, expired |-> {}]
  /\ TrackKings

Replay ==
  /\ script # << >>
  /\ IF Head(script).op = "move"
     THEN DoApply(Head(script).from, Head(script).to)
     ELSE DoResolve(Head(script).type)
  /\ script' = Tail(script)
  /\ UNCHANGED steps

Apply(fromId, toId) ==
  /\ script = << >>
  /\ steps < MaxSteps
  /\ DoApply(fromId, toId)
  /\ steps' = IF moveOutcome(gs, fromId, toId) = "accepted" THEN steps + 1 ELSE steps
  /\ UNCHANGED script

ResolvePromotion(type) ==
  /\ script = << >>
  /\ DoResolve(type)
  /\ UNCHANGED <<script, steps>>

\* a click in the promotion dialog, which is shown while a promotion is pending
HandlePromotion(type) ==
  /\ script = << >>
  /\ gs.promotion # NullPromotion
  /\ gs' = handlePromotion(gs, type)
  /\ call' = [op |-> "handle", outcome |-> promotionOutcome(gs, type),
              mover |-> gs.promotion.color, capturedKing |-> Null, expired |-> {}]
  /\ TrackKings
  /\ UNCHANGED <<script, steps>>

Next ==
  \/ Replay
  \/ \E fromId \in ActiveSquares, toId \in ActiveSquares : Apply(fromId, toId)
  \/ \E type \in PieceTypes : ResolvePromotion(type)
  \/ \E type \in PieceTypes : HandlePromotion(type)

Spec == Init /\ [][Next]_vars

\* the games in which no promotion is resolved: a scripted opening is replayed up
\* to its first promotion choice
ReplayMove ==
  /\ script # << >>
  /\ Head(script).op = "move"
  /\ Replay

NextMove ==
  \/ ReplayMove
  \/ \E fromId \in ActiveSquares, toId \in ActiveSquares : Apply(fromId, toId)

MoveSpec == Init /\ [][NextMove]_vars

(***************************************************************************)
(* Properties                                                              *)
(***************************************************************************)
isLoan(o) == o.kind = "piece" /\ o.mustReturn

isPlainPiece(o) == o.kind = "piece" /\ ~o.mustReturn

\* the fields a refused request leaves alone
SameButMessage(g, g2) ==
  /\ g2.board = g.board
  /\ g2.stock = g.stock
  /\ g2.quietus = g.quietus
  /\ g2.kingOnBoard = g.kingOnBoard
  /\ g2.kingProtectedUntil = g.kingProtectedUntil
  /\ g2.turn = g.turn
  /\ g2.moveNumber = g.moveNumber
  /\ g2.promotion = g.promotion
  /\ g2.winner = g.winner
  /\ g2.winReason = g.winReason
  /\ g2.lastMove = g.lastMove

\* the step is an apply that was carried out: only an accepted move advances moveNumber
MoveAccepted == call'.op = "apply" /\ gs'.moveNumber = gs.moveNumber + 1

C2_PendingPromotionBlocks ==
  [][(/\ gs.promotion # NullPromotion
      /\ call'.op = "apply"
      /\ call'.mover = gs.promotion.color)
     => (gs'.moveNumber = gs.moveNumber /\ SameButMessage(gs, gs'))]_vars

\* C3 as stated: a king that came to be in a state of moveNumber m cannot be
\* captured by any apply made at moveNumber m, and from m + 1 on the protection
\* window refuses no capture of it.
C3_FreshKingProtected ==
  \A c \in Colors :
    \A k \in kingSquares(gs, c) :
      /\ kingSince[c] = gs.moveNumber =>
           \A fromId \in Squares : moveOutcome(gs, fromId, k) # "accepted"
      /\ kingSince[c] < gs.moveNumber =>
           \A fromId \in Squares : moveOutcome(gs, fromId, k) # "king protected"

\* C4 as stated: a loan piece with returnByTurn = N is on the board only in states
\* with moveNumber < N.
C4_LoanGoneAtDeadline ==
  \A s \in Squares :
    isLoan(gs.board[s].occupant) => gs.moveNumber < gs.board[s].occupant.returnByTurn

\* C4 amended: a loan piece with returnByTurn = N stops being a loan at the first
\* accepted apply of its own color, which brings moveNumber to N or to N + 1: it
\* is removed from the board unless that move lands it on ranks 3..6, and no
\* loan of that color is left; any other step leaves it in place, unless it is
\* an accepted apply of the other color that captures it.
C4_LoanExpiry ==
  [][\A s \in Squares :
       LET o == gs.board[s].occupant
       IN  isLoan(o) =>
             IF MoveAccepted /\ gs'.lastMove.by = o.color
             THEN /\ gs'.moveNumber \in {o.returnByTurn, o.returnByTurn + 1}
                  /\ gs'.board[s].occupant = NullOccupant
                  /\ (gs'.lastMove.from = s /\ ~inZone(gs'.lastMove.to[2])) =>
                       gs'.board[gs'.lastMove.to].occupant = NullOccupant
                  /\ \A t \in Squares :
                       ~(isLoan(gs'.board[t].occupant) /\ gs'.board[t].occupant.color = o.color)
             ELSE \/ gs'.board[s].occupant = o
                  \/ (MoveAccepted /\ gs'.lastMove.to = s)]_vars

\* a loan was destroyed by the move that brought moveNumber past its returnByTurn
C4_Witness ==
  /\ call.op = "apply"
  /\ call.capturedKing = Null
  /\ \E e \in call.expired : gs.moveNumber = e[2] + 1

\* C5: once winner is set, every apply returns the same board, stock, quietus,
\* kingOnBoard, turn, moveNumber, winner and winReason.
C5_FrozenAfterWin ==
  [][(gs.winner # Null /\ call'.op = "apply") =>
       /\ gs'.board = gs.board
       /\ gs'.stock = gs.stock
       /\ gs'.quietus = gs.quietus
       /\ gs'.kingOnBoard = gs.kingOnBoard
       /\ gs'.turn = gs.turn
       /\ gs'.moveNumber = gs.moveNumber
       /\ gs'.winner = gs.winner
       /\ gs'.winReason = gs.winReason]_vars

\* the side to move asked for a move after the game was won
C5_Witness ==
  /\ gs.winner # Null
  /\ call.op = "apply"
  /\ call.outcome = "game over"
  /\ call.mover = gs.turn

\* C6: an apply refused for any of the six causes changes nothing but the message.
C6_RejectionChangesOnlyMessage ==
  [][(/\ call'.op = "apply"
      /\ call'.outcome \in {"game over", "no occupant", "not your turn", "illegal",
                            "no own king", "king protected"})
     => SameButMessage(gs, gs')]_vars

\* a capture of a king was refused inside its protection window
C6_Witness ==
  /\ call.op = "apply"
  /\ call.outcome = "king protected"
  /\ gs.kingProtectedUntil[other(call.mover)] = gs.moveNumber

\* C7 as stated: every refused apply, and every resolvePromotion refused at the
\* cap, returns a state that carries a message.
C7_RejectionCarriesMessage ==
  [][(\/ (call'.op = "apply" /\ call'.outcome # "accepted")
      \/ (call'.op = "resolve" /\ call'.outcome = "at cap"))
     => gs'.message # Null]_vars

\* C8: an accepted apply whose destination held a king of color d was made by a
\* color with kingOnBoard true, at a moveNumber other than kingProtectedUntil[d].
C8_NoIllegitimateKingCapture ==
  [][\A d \in Colors :
       (MoveAccepted /\ isKingOf(gs.board[gs'.lastMove.to].occupant, d)) =>
         /\ gs'.lastMove.by = other(d)
         /\ gs.kingOnBoard[gs'.lastMove.by]
         /\ gs.kingProtectedUntil[d] # gs.moveNumber]_vars

\* a king was captured and is no longer on the board
C8_Witness ==
  /\ call.op = "apply"
  /\ call.capturedKing # Null
  /\ kingSquares(gs, call.capturedKing) = {}
  /\ gs.quietus[call.capturedKing]["K"] > 0

\* C9: an accepted apply whose destination held an opposing king returns
\* winner = the mover and winReason = "king captured".
C9_KingCapturedWins ==
  [][\A d \in Colors :
       (MoveAccepted /\ isKingOf(gs.board[gs'.lastMove.to].occupant, d)) =>
         /\ gs'.winner = other(d)
         /\ gs'.winReason = "king captured"]_vars

\* the game was won by the capture of a king
C9_Witness ==
  /\ call.capturedKing # Null
  /\ gs.winner = call.mover
  /\ gs.winReason = "king captured"

\* the position of C10: a king of the color that did not move is a legal destination
\* of a piece of color m, and so is each of its own legal destinations
C10_Position(g, m) ==
  LET hit(d) == \E s \in piecesOf(g, m) : d \in legalMovesForPiece(g, s)
  IN  \E k \in kingSquares(g, other(m)) :
        hit(k) /\ \A d \in legalMovesForPiece(g, k) : hit(d)

\* C10 as stated: after an accepted apply by color m that captures no king,
\* checkmate is declared for m when the returned position is the position of
\* C10, and is not declared otherwise.
C10_CheckmateDetection ==
  [][(/\ MoveAccepted
      /\ \A d \in Colors : ~isKingOf(gs.board[gs'.lastMove.to].occupant, d))
     => IF C10_Position(gs', gs'.lastMove.by)
        THEN gs'.winner = gs'.lastMove.by /\ gs'.winReason = "checkmate"
        ELSE gs'.winReason # "checkmate"]_vars


\* the condition of C11 for color c, read off the board
C11_Immobile(g, c) ==
  /\ kingSquares(g, c) = {}
  /\ \A s \in piecesOf(g, c) :
       g.board[s].occupant.type = "P" => legalMovesForPiece(g, s) = {}
  /\ \A s \in metamorphsOf(g, c) : legalMovesForMetamorph(g, s) = {}

\* C11 as stated: after an accepted apply in which no king was captured and no
\* checkmate was declared, a color with no king on the board, no pawn that can
\* move and no metamorph that can move has lost to the other color by
\* immobility, and when neither color is in that condition no winner is set.
C11_ImmobilityLoss ==
  [][(/\ MoveAccepted
      /\ \A d \in Colors : ~isKingOf(gs.board[gs'.lastMove.to].occupant, d)
      /\ gs'.winReason # "checkmate")
     => /\ \A c \in Colors :
             C11_Immobile(gs', c) =>
               /\ gs'.winner = other(c)
               /\ gs'.winReason = "no king + no mobile pawns/metamorphs"
        /\ (\A c \in Colors : ~C11_Immobile(gs', c)) => gs'.winner = Null]_vars


\* C12 as stated: when the position returned by an accepted resolvePromotion
\* satisfies a win condition of the Win Detector, seen from the player who just
\* moved, the returned state has winner and winReason set.
C12_WinDetectedAfterPromotion ==
  [][(/\ call'.op = "resolve"
      /\ call'.outcome = "accepted"
      /\ detectWin(gs', other(gs'.turn), Null) # NoWin)
     => (gs'.winner # Null /\ gs'.winReason # Null)]_vars


\* C13: in every state reached from a new game by apply and resolvePromotion,
\* every stock entry lies between 0 and the initial cap of its type.
C13_StockBounds ==
  \A c \in Colors : \A t \in PieceTypes :
    gs.stock[c][t] >= 0 /\ gs.stock[c][t] <= INITIAL_COUNTS[t]

\* a stock entry is at 0 and has just refused a transform: a metamorph stands in
\* the zone on a symbol its color has no stock of
C13_Witness ==
  \E s \in Squares :
    LET sq == gs.board[s]
    IN  /\ inZone(s[2])
        /\ sq.occupant.kind = "metamorph"
        /\ gs.stock[sq.occupant.color][sq.blueSymbol] = 0


\* C14 as stated: in every state reached by accepted moves with no promotion
\* resolved, stock[c][t] plus the number of pieces of color c and type t on the
\* board equals the initial cap of t.
C14_StockPlusBoard ==
  \A c \in Colors : \A t \in PieceTypes :
    gs.stock[c][t] + activeCounts(gs, c)[t] = INITIAL_COUNTS[t]

\* C14 amended: in every state reached by accepted moves with no promotion
\* resolved, stock[c][t] plus the number of pieces of color c and type t on the
\* board plus the captured pieces quietus[c][t] equals the initial cap of t.
C14_StockConservation ==
  \A c \in Colors : \A t \in PieceTypes :
    gs.stock[c][t] + activeCounts(gs, c)[t] + gs.quietus[c][t] = INITIAL_COUNTS[t]

\* a piece of color c has been captured and pieces of its type remain on the
\* board and in the stock
C14_Witness ==
  /\ call.op = "apply"
  /\ \E c \in Colors : \E t \in PieceTypes :
       /\ gs.quietus[c][t] > 0
       /\ activeCounts(gs, c)[t] > 0
       /\ gs.stock[c][t] > 0


\* C15 as stated: an accepted apply that moves a metamorph of color c onto a
\* square of ranks 3..6 with symbol t while stock[c][t] > 0 returns a state in
\* which the square holds a non-loan piece of color c and type t, stock[c][t] is
\* one lower, turn is the other color and moveNumber is one higher.
C15_LandingTransform ==
  [][LET from == gs'.lastMove.from
         to   == gs'.lastMove.to
         m    == gs.board[from].occupant
         t    == gs.board[to].blueSymbol
     IN  (/\ MoveAccepted
          /\ m.kind = "metamorph"
          /\ inZone(to[2])
          /\ gs.stock[m.color][t] > 0)
         => /\ gs'.board[to].occupant.kind = "piece"
            /\ gs'.board[to].occupant.color = m.color
            /\ gs'.board[to].occupant.type = t
            /\ ~gs'.board[to].occupant.mustReturn
            /\ gs'.stock[m.color][t] = gs.stock[m.color][t] - 1
            /\ gs'.turn = other(m.color)
            /\ gs'.moveNumber = gs.moveNumber + 1]_vars

\* C16: an accepted apply is made by the color to move, flips turn and adds one to
\* moveNumber; a rejected apply and every resolvePromotion leave turn and
\* moveNumber as they were; the color to move is white exactly at odd moveNumber,
\* so accepted moves alternate white, black, white, ... from moveNumber 1.
C16_TurnAlternation ==
  [][/\ (call'.op = "apply" /\ call'.outcome = "accepted") =>
          /\ call'.mover = gs.turn
          /\ gs'.turn = other(gs.turn)
          /\ gs'.moveNumber = gs.moveNumber + 1
     /\ (call'.op = "apply" /\ call'.outcome # "accepted") =>
          /\ gs'.turn = gs.turn
          /\ gs'.moveNumber = gs.moveNumber
     /\ call'.op = "resolve" =>
          /\ gs'.turn = gs.turn
          /\ gs'.moveNumber = gs.moveNumber
     /\ gs.moveNumber >= 1
     /\ gs.turn = (IF gs.moveNumber % 2 = 1 THEN "white" ELSE "black")
     /\ gs'.turn = (IF gs'.moveNumber % 2 = 1 THEN "white" ELSE "black")]_vars

\* black has just made an accepted move after an accepted promotion choice of white
C16_Witness ==
  /\ call.op = "apply" /\ call.outcome = "accepted" /\ call.mover = "black"
  /\ gs.turn = "white"
  /\ \E s \in Squares : isLoan(gs.board[s].occupant)

\* what C17 says a resolvePromotion(g, t) that is not rejected returns as g2: a loan
\* of the promoting color and of type t on the promotion square, due at
\* moveNumber + 1; quietus one lower for that color and type if it was positive
\* and otherwise as it was; the stock as the sweep alone leaves it; no promotion
C17_Placed(g, t, g2) ==
  LET c == g.promotion.color
      o == g2.board[g.promotion.square].occupant
  IN  /\ o.kind = "piece" /\ o.color = c /\ o.type = t
      /\ o.mustReturn /\ o.returnByTurn = g.moveNumber + 1
      /\ g2.quietus = [g.quietus EXCEPT ![c][t] = IF @ > 0 THEN @ - 1 ELSE @]
      /\ g2.stock = applyAutoTransforms(g).stock
      /\ g2.promotion = NullPromotion

\* C17 as stated: resolvePromotion(state, t) with a promotion pending for color c
\* returns the state unchanged when the pieces of color c and type t on the board
\* number exactly the cap of t, and otherwise places the loan.
C17_PromotionResolutionAtCap ==
  [][\A t \in PieceTypes :
       (/\ call'.op = "resolve" /\ gs.promotion # NullPromotion
        /\ gs' = applyPromotionChoice(gs, t)) =>
          IF activeCounts(gs, gs.promotion.color)[t] = INITIAL_COUNTS[t]
          THEN gs' = gs
          ELSE C17_Placed(gs, t, gs')]_vars

\* C17 amended: resolvePromotion(state, t) with a promotion pending for color c
\* returns the state unchanged when the pieces of color c and type t on the board
\* number the cap of t or more, and otherwise places the loan.
C17_PromotionResolution ==
  [][\A t \in PieceTypes :
       (/\ call'.op = "resolve" /\ gs.promotion # NullPromotion
        /\ gs' = applyPromotionChoice(gs, t)) =>
          IF activeCounts(gs, gs.promotion.color)[t] >= INITIAL_COUNTS[t]
          THEN gs' = gs
          ELSE C17_Placed(gs, t, gs')]_vars

\* a promotion choice has just been carried out and the loan stands on rank 1 or 8
C17_Witness ==
  /\ call.op = "resolve" /\ call.outcome = "accepted"
  /\ gs.promotion = NullPromotion
  /\ \E s \in Squares :
       /\ ~inZone(s[2])
       /\ isLoan(gs.board[s].occupant)
       /\ gs.board[s].occupant.color = call.mover
       /\ gs.board[s].occupant.returnByTurn = gs.moveNumber + 1

\* some occupant of color c has a geometrically legal destination
C18_HasLegalDestination(g, c) == \E s \in occupantsOf(g, c) : legalMoves(g, s) # {}

\* a soft-failure result: the state handed in, unchanged, with a failure message
C18_SoftFailed(base, g2) == SameButMessage(base, g2) /\ g2.message # Null

\* C18, in a game that is not over: for either color, generateMoves returns a
\* non-empty candidate set whenever some occupant of that color has a
\* geometrically legal destination, and no returned candidate's resulting state
\* is a soft-failure result.
C18_GenerateMovesNonEmpty ==
  gs.winner = Null =>
    \A c \in Colors :
      /\ C18_HasLegalDestination(gs, c) => generateMoves(gs, c) # {}
      /\ \A m \in generateMoves(gs, c) : ~C18_SoftFailed([gs EXCEPT !.turn = c], m.next)

\* C19: for either color, every tentative move of generateMoves that apply accepts,
\* a move that captures the opposing king or gives checkmate included, is among
\* the candidates that reach the king-safety filter.
C19_AcceptedMovesSurvive ==
  \A c \in Colors :
    \A m \in tentativeMoves(gs, c) :
      moveOutcome([gs EXCEPT !.turn = c], m.from, m.to) = "accepted" =>
        m \in candidatesOf(gs, c)

\* C20, for a best move that does not leave the AI's own king attacked: when the AI
\* is to move and exactly one of the moves of its color that apply accepts has the
\* greatest evaluate score, pickAiMove at level Medium returns the resulting state
\* of that move.
C20_MediumPicksUniqueBest ==
  (gs.winner = Null /\ gs.turn = cpuPlays) =>
    LET accepted == {m \in tentativeMoves(gs, cpuPlays) :
                       moveOutcome(gs, m.from, m.to) = "accepted"}
        scored   == {<<m, evaluate(m.next, cpuPlays)>> : m \in accepted}
        top      == {p \in scored : \A q \in scored : p[2] >= q[2]}
    IN  (Cardinality(top) = 1 /\ \A p \in top : ~kingInCheck(p[1].next, cpuPlays))
          => pickAiMove(gs) = {p[1].next : p \in top}

\* C21: a metamorph whose next rank toward the center (rank - 1 for white, rank + 1
\* for black) is on the board has exactly that square of its file as legal move
\* when the square is empty and no legal move when it holds any occupant; a
\* metamorph on its last rank has no legal move.
C21_MetamorphMotion ==
  \A s \in Squares :
    gs.board[s].occupant.kind = "metamorph" =>
      LET nr == s[2] + (IF gs.board[s].occupant.color = "white" THEN -1 ELSE 1)
      IN  IF nr \in RANKS
          THEN IF gs.board[<<s[1], nr>>].occupant.kind = "null"
               THEN legalMovesForMetamorph(gs, s) = {<<s[1], nr>>}
               ELSE legalMovesForMetamorph(gs, s) = {}
          ELSE legalMovesForMetamorph(gs, s) = {}

\* after an accepted move a black metamorph stands right behind a white piece, and
\* another metamorph has an empty square before it
C21_Witness ==
  /\ call.op = "apply" /\ call.outcome = "accepted"
  /\ \E s \in metamorphsOf(gs, "black") :
       /\ s[2] < 8
       /\ gs.board[<<s[1], s[2] + 1>>].occupant.kind = "piece"
       /\ gs.board[<<s[1], s[2] + 1>>].occupant.color = "white"
  /\ \E s \in metamorphsOf(gs, "white") :
       s[2] > 1 /\ gs.board[<<s[1], s[2] - 1>>].occupant.kind = "null"

\* C22: resolvePromotion on a state whose winner is set and whose promotion is
\* pending returns a state with the same board, stock, quietus, kingOnBoard and
\* promotion.
C22_FrozenPromotionAfterWin ==
  [][(call'.op = "resolve" /\ gs.winner # Null /\ gs.promotion # NullPromotion) =>
       /\ gs'.board = gs.board
       /\ gs'.stock = gs.stock
       /\ gs'.quietus = gs.quietus
       /\ gs'.kingOnBoard = gs.kingOnBoard
       /\ gs'.promotion = gs.promotion]_vars

\* a king of color c stands on the board on a square a piece of the other color
\* can move to
C23_KingAttacked(g, c) ==
  \E k \in kingSquares(g, c) : isSquareAttacked(g, k[1], k[2], other(c))

\* C23: when the king of the color is attacked in the state, every candidate that
\* generateMoves returns leaves that king not attacked in its resulting state;
\* when it is not attacked, the result is the set of the candidates that leave
\* the king not attacked if there is one, and the full candidate set otherwise.
C23_CheckEscapeFilter ==
  \A c \in Colors :
    LET candidates == candidatesOf(gs, c)
        escaping   == {m \in candidates : ~C23_KingAttacked(m.next, c)}
    IN  IF C23_KingAttacked(gs, c)
        THEN \A m \in generateMoves(gs, c) : ~C23_KingAttacked(m.next, c)
        ELSE generateMoves(gs, c) = (IF escaping # {} THEN escaping ELSE candidates)

\* C24: in every state with a pending promotion and for every type t,
\* handlePromotion(t) and applyPromotionChoice(state, t) give states with the same
\* board, stock, quietus, kingOnBoard, kingProtectedUntil, promotion, turn and
\* moveNumber, whether the choice is accepted or t is at its cap.
C24_HandlerIsCoreTransition ==
  gs.promotion # NullPromotion =>
    \A t \in PieceTypes :
      LET ui   == handlePromotion(gs, t)
          core == applyPromotionChoice(gs, t)
      IN  /\ ui.board = core.board
          /\ ui.stock = core.stock
          /\ ui.quietus = core.quietus
          /\ ui.kingOnBoard = core.kingOnBoard
          /\ ui.kingProtectedUntil = core.kingProtectedUntil
          /\ ui.promotion = core.promotion
          /\ ui.turn = core.turn
          /\ ui.moveNumber = core.moveNumber

\* a promotion is pending where one type is at its cap and another is not, and the
\* dialog has just refused a choice
C24_Witness ==
  /\ call.op = "handle" /\ call.outcome = "at cap"
  /\ gs.promotion # NullPromotion
  /\ gs.message = "You can't promote to that piece right now."
  /\ \E t \in PieceTypes : promotionOutcome(gs, t) = "accepted"

\* the occupant of the zone square s is waiting for a transformation the stock
\* allows: a metamorph, or a piece of another type than the symbol of s
C25_Pending(g, s) ==
  LET o == g.board[s].occupant
      t == g.board[s].blueSymbol
  IN  /\ inZone(s[2]) /\ o.kind # "null"
      /\ (o.kind = "metamorph" \/ o.type # t)
      /\ g.stock[o.color][t] > 0

\* C25: in the state returned by an accepted apply or resolvePromotion no occupant
\* of ranks 3..6 is waiting for a transformation the stock allows, and one more
\* sweep changes nothing.
C25_SweepFixedPoint ==
  (call.op \in {"apply", "resolve", "handle"} /\ call.outcome = "accepted") =>
    /\ \A s \in Squares : ~C25_Pending(gs, s)
    /\ applyAutoTransforms(gs) = gs

\* C26: in every reachable state, kingOnBoard[c] is true exactly when a piece
\* of colour c and type K stands on the board.
C26_KingFlagMatchesBoard ==
  \A c \in Colors :
    gs.kingOnBoard[c] <=>
      (\E s \in Squares : LET o == gs.board[s].occupant
                           IN  o.kind = "piece" /\ o.color = c /\ o.type = "K")

\* C27: in every reachable state every piece with mustReturn stands outside
\* ranks 3..6 and carries a returnByTurn; and every loan that the expiry loop of
\* an accepted move finds due stands outside ranks 3..6, so that the loop destroys
\* it and never takes the branch that clears the flags in place.
C27_LoansOutsideZone ==
  /\ [](\A s \in Squares :
          isLoan(gs.board[s].occupant) =>
            ~inZone(s[2]) /\ gs.board[s].occupant.returnByTurn # NullTurn)
  /\ [][MoveAccepted =>
          LET g1 == movedAndAdvanced(gs, gs'.lastMove.from, gs'.lastMove.to)
          IN  \A s \in Squares : loanDue(g1, s) => ~inZone(s[2])]_vars

\* a piece has just moved from rank 1 or 8, where only loans move from, into
\* ranks 3..6 and stands there as a plain piece; no loan was destroyed by that move
C27_Witness ==
  /\ call.op = "apply" /\ call.outcome = "accepted" /\ call.expired = {}
  /\ gs.lastMove.from[2] \in {1, 8} /\ inZone(gs.lastMove.to[2])
  /\ isPlainPiece(gs.board[gs.lastMove.to].occupant)

\* C28: in every reachable state with a pending promotion, the recorded square
\* holds a pawn of the recorded colour on that colour's far rank, and no call
\* replaces a pending promotion by another one: it stays as it is until a
\* promotion choice clears it.
C28_PromotionRefersToPawn ==
  /\ [](gs.promotion # NullPromotion =>
          LET o == gs.board[gs.promotion.square].occupant
              c == gs.promotion.color
          IN  /\ o.kind = "piece" /\ o.type = "P" /\ o.color = c
              /\ gs.promotion.square[2] = (IF c = "white" THEN 1 ELSE 8))
  /\ [][gs.promotion # NullPromotion =>
          gs'.promotion \in {gs.promotion, NullPromotion}]_vars

\* the square where the occupant of s stands after the step
C29_After(s) ==
  IF MoveAccepted /\ s = gs'.lastMove.from THEN gs'.lastMove.to ELSE s

\* C29: no legal destination of a piece or metamorph holds a metamorph; in every
\* step a metamorph either stays a metamorph or has become a plain piece of its
\* own colour, of the symbol's type, on the square of ranks 3..6 where it stands;
\* and quietus grows only by an accepted move, by exactly one, for the piece that
\* stood on the destination.
C29_MetamorphsNeverCaptured ==
  /\ [](\A from \in Squares :
          gs.board[from].occupant.kind # "null" =>
            \A to \in legalMoves(gs, from) : gs.board[to].occupant.kind # "metamorph")
  /\ [][(gs'.board # gs.board \/ gs'.quietus # gs.quietus) =>
          /\ \A s \in Squares :
               LET o  == gs.board[s].occupant
                   s2 == C29_After(s)
                   o2 == gs'.board[s2].occupant
               IN  o.kind = "metamorph" =>
                     \/ o2 = o
                     \/ /\ isPlainPiece(o2) /\ o2.color = o.color
                        /\ inZone(s2[2]) /\ o2.type = gs.board[s2].blueSymbol
          /\ IF MoveAccepted
             THEN LET target == gs.board[gs'.lastMove.to].occupant
                  IN  gs'.quietus =
                        IF target.kind = "piece"
                        THEN [gs.quietus EXCEPT ![target.color][target.type] = @ + 1]
                        ELSE gs.quietus
             ELSE \A c \in Colors, t \in PieceTypes :
                    gs'.quietus[c][t] <= gs.quietus[c][t]]_vars

\* a pawn has just taken a piece by its diagonal step and now stands diagonally
\* in front of a metamorph of the other colour, which it has no move to
C29_Witness ==
  /\ call.op = "apply" /\ call.outcome = "accepted"
  /\ LET to == gs.lastMove.to
         o  == gs.board[to].occupant
         r  == to[2] + (IF o.color = "white" THEN -1 ELSE 1)
     IN  /\ o.kind = "piece" /\ o.type = "P" /\ o.bornAtTurn < gs.moveNumber - 1
         /\ gs.lastMove.from[1] # to[1]
         /\ \E c \in Colors, t \in PieceTypes : c # o.color /\ gs.quietus[c][t] > 0
         /\ \E d \in {-1, 1} :
              /\ inBounds(to[1] + d, r)
              /\ occ(gs.board, to[1] + d, r).kind = "metamorph"
              /\ occ(gs.board, to[1] + d, r).color # o.color
              /\ <<to[1] + d, r>> \notin legalMoves(gs, to)

====
